---- MODULE Spec2Model ----
(***************************************************************************)
(* Model of mod_exp (src/src/lib.rs): modular exponentiation by the        *)
(* right-to-left binary method over a fixed-width integer type T.          *)
(*                                                                         *)
(* One call of mod_exp is a small state machine: the overflow guard        *)
(* (lines 43-45), the initialisation of the loop locals (47-49), and the   *)
(* loop (51-62) taken one statement at a time.  T ranges over u8, i8 and   *)
(* i16.  Arithmetic is Rust's: `/` and `%` truncate towards zero and       *)
(* panic on a zero divisor and on MIN / -1; `+ - *` panic on overflow when *)
(* the build has overflow checks and wrap (two's complement) otherwise.    *)
(***************************************************************************)
EXTENDS Integers, FiniteSets, Sequences, TLC

VARIABLES
    T,                \* the integer type the call is instantiated at
    overflow_checks,  \* TRUE: the build panics on overflow; FALSE: it wraps
    base_arg,         \* parameter `base`
    exponent_arg,     \* parameter `exponent`
    modulus,          \* parameter `modulus`
    result,           \* `let mut result`
    base,             \* `let mut base` (shadows the parameter)
    exponent,         \* `let mut exponent`
    pc,               \* position in the function body
    panic,            \* "none", or why the call aborted
    iters             \* number of loop iterations begun (ghost)

vars == <<T, overflow_checks, base_arg, exponent_arg, modulus,
          result, base, exponent, pc, panic, iters>>

---------------------------------------------------------------------------
(* The integer types.                                                      *)

U8 == [signed |-> FALSE, bits |-> 8]
I8 == [signed |-> TRUE, bits |-> 8]
I16 == [signed |-> TRUE, bits |-> 16]

Types == {U8, I8, I16}

\* Bounded::max_value()
MaxValue(t) == IF t.signed THEN 2^(t.bits - 1) - 1 ELSE 2^(t.bits) - 1

MinValue(t) == IF t.signed THEN -(2^(t.bits - 1)) ELSE 0

InRange(x, t) == MinValue(t) <= x /\ x <= MaxValue(t)

\* two's-complement wrap of a mathematical integer into t
Wrap(x, t) ==
    LET m == 2^(t.bits)
        r == x % m
    IN IF t.signed /\ r > MaxValue(t) THEN r - m ELSE r

Abs(x) == IF x < 0 THEN -x ELSE x

\* Rust's integer division: truncation towards zero (d # 0)
TruncDiv(a, d) ==
    LET q == Abs(a) \div Abs(d)
    IN IF (a < 0) = (d < 0) THEN q ELSE -q

\* Rust's remainder: the sign of the dividend (d # 0)
TruncRem(a, d) == a - d * TruncDiv(a, d)

---------------------------------------------------------------------------
(* Outcomes of an operation of T: a value, or a panic.                     *)

Ok(v) == [ok |-> TRUE, val |-> v, err |-> "none"]

Panic(why) == [ok |-> FALSE, val |-> 0, err |-> why]

\* One::one(), Zero::zero()
ONE == 1

ZERO == 0

\* a - b
Sub(a, b, t, oc) ==
    IF InRange(a - b, t) THEN Ok(a - b)
    ELSE IF oc THEN Panic("overflow") ELSE Ok(Wrap(a - b, t))

\* a + b
Add(a, b, t, oc) ==
    IF InRange(a + b, t) THEN Ok(a + b)
    ELSE IF oc THEN Panic("overflow") ELSE Ok(Wrap(a + b, t))

\* a * b
Mul(a, b, t, oc) ==
    IF InRange(a * b, t) THEN Ok(a * b)
    ELSE IF oc THEN Panic("overflow") ELSE Ok(Wrap(a * b, t))

\* a / d: panics on d = 0 and on MIN / -1 in every build
Div(a, d, t) ==
    IF d = 0 THEN Panic("div_zero")
    ELSE IF t.signed /\ a = MinValue(t) /\ d = -1 THEN Panic("overflow")
    ELSE Ok(TruncDiv(a, d))

\* a % d: panics on d = 0 and on MIN % -1 in every build
Rem(a, d, t) ==
    IF d = 0 THEN Panic("rem_zero")
    ELSE IF t.signed /\ a = MinValue(t) /\ d = -1 THEN Panic("overflow")
    ELSE Ok(TruncRem(a, d))

\* a >> 1 (arithmetic shift on signed types)
Shr_Decrement(a) == a - 1

Shr(a) == a \div 2

\* let TWO: T = ONE + ONE;  (MaxValue >= 2 for every type here)
TWO == ONE + ONE

---------------------------------------------------------------------------
(* The statements of mod_exp as operators.                                 *)

\* the literal product test the division form replaces
OverflowGuard_Product(m, t, oc) ==
    IF m > ONE
    THEN LET d == Sub(m, ONE, t, oc)
             p == IF d.ok THEN Mul(d.val, d.val, t, oc) ELSE d
         IN IF ~p.ok THEN p
            ELSE IF p.val <= MaxValue(t) THEN Ok(0) ELSE Panic("assert")
    ELSE Ok(0)

\* lines 43-45
OverflowGuard(m, t, oc) ==
    IF m > ONE
    THEN LET d == Sub(m, ONE, t, oc)
             q == IF d.ok THEN Div(MaxValue(t), d.val, t) ELSE d
         IN IF ~q.ok THEN q
            ELSE IF d.val < q.val THEN Ok(0) ELSE Panic("assert")
    ELSE Ok(0)

\* line 47
InitResult_Zero == ZERO

InitResult == ONE

\* line 48
InitBase_NoReduce(b, m, t) == Ok(b)

InitBase(b, m, t) == Rem(b, m, t)

\* line 52
LoopExit(e) == e <= ZERO

\* lines 56-58
IsOdd(e, t) == Rem(e, TWO, t).val = ONE

Multiply_NoReduce(r, b, e, m, t, oc) ==
    IF IsOdd(e, t) THEN Mul(r, b, t, oc) ELSE Ok(r)

Multiply(r, b, e, m, t, oc) ==
    IF IsOdd(e, t)
    THEN LET p == Mul(r, b, t, oc)
         IN IF p.ok THEN Rem(p.val, m, t) ELSE p
    ELSE Ok(r)

\* line 61
Square_Double(b, m, t, oc) ==
    LET p == Add(b, b, t, oc)
    IN IF p.ok THEN Rem(p.val, m, t) ELSE p

Square(b, m, t, oc) ==
    LET p == Mul(b, b, t, oc)
    IN IF p.ok THEN Rem(p.val, m, t) ELSE p

\* lines 51-62 run to the end, from the top of an iteration
RECURSIVE Loop(_, _, _, _, _, _)
Loop(r, b, e, m, t, oc) ==
    IF LoopExit(e) THEN Ok(r)
    ELSE LET r2 == Multiply(r, b, e, m, t, oc)
             b2 == Square(b, m, t, oc)
         IN IF ~r2.ok THEN r2
            ELSE IF ~b2.ok THEN b2
            ELSE Loop(r2.val, b2.val, Shr(e), m, t, oc)

\* the whole call, lines 37-65
mod_exp(b, e, m, t, oc) ==
    LET g == OverflowGuard(m, t, oc)
        b1 == InitBase(b, m, t)
    IN IF ~g.ok THEN g
       ELSE IF ~b1.ok THEN b1
       ELSE Loop(InitResult, b1.val, e, m, t, oc)

---------------------------------------------------------------------------
(* The calls explored: every modulus of the 8-bit types and the moduli     *)
(* around the guard's threshold for i16; bases and exponents near zero     *)
(* and at the ends of the type's range.                                    *)

MaxBase == 5

MaxExp == 4

MaxNegExp == 2

MaxSmallModulus == 3

Near(t, k) == {v \in (-k)..k : InRange(v, t)}

Ends(t) == {MinValue(t), MaxValue(t)}

\* the largest x with x * x <= n
Isqrt(n) == CHOOSE x \in 0..n : x * x <= n /\ (x + 1) * (x + 1) > n

Bases(t) == Near(t, MaxBase) \cup Ends(t)

Exponents(t) == {v \in (-MaxNegExp)..MaxExp : InRange(v, t)} \cup Ends(t)

Moduli(t) ==
    IF t.bits = 8 THEN MinValue(t)..MaxValue(t)
    ELSE LET s == Isqrt(MaxValue(t))
         IN Near(t, MaxSmallModulus) \cup Ends(t) \cup {-s, s - 1, s, s + 1, s + 2}

---------------------------------------------------------------------------
(* The state machine of one call.                                          *)

Init ==
    /\ T \in Types
    /\ overflow_checks \in BOOLEAN
    /\ base_arg \in Bases(T)
    /\ exponent_arg \in Exponents(T)
    /\ modulus \in Moduli(T)
    /\ result = 0
    /\ base = 0
    /\ exponent = 0
    /\ pc = "guard"
    /\ panic = "none"
    /\ iters = 0

\* lines 43-45: if modulus > ONE { assert!(...) }
Guard ==
    /\ pc = "guard"
    /\ LET g == OverflowGuard(modulus, T, overflow_checks)
       IN /\ pc' = IF g.ok THEN "init" ELSE "panic"
          /\ panic' = g.err
    /\ UNCHANGED <<T, overflow_checks, base_arg, exponent_arg, modulus,
                   result, base, exponent, iters>>

\* lines 47-49: the loop locals
Locals ==
    /\ pc = "init"
    /\ LET b1 == InitBase(base_arg, modulus, T)
       IN IF b1.ok
          THEN /\ result' = InitResult
               /\ base' = b1.val
               /\ exponent' = exponent_arg
               /\ pc' = "test"
               /\ panic' = panic
          ELSE /\ pc' = "panic"
               /\ panic' = b1.err
               /\ UNCHANGED <<result, base, exponent>>
    /\ UNCHANGED <<T, overflow_checks, base_arg, exponent_arg, modulus, iters>>

\* lines 52-54: if exponent <= ZERO { break; }
Test ==
    /\ pc = "test"
    /\ IF LoopExit(exponent)
       THEN pc' = "done" /\ iters' = iters
       ELSE pc' = "odd" /\ iters' = iters + 1
    /\ UNCHANGED <<T, overflow_checks, base_arg, exponent_arg, modulus,
                   result, base, exponent, panic>>

\* lines 56-58: if exponent % TWO == ONE { result = (result * base) % modulus; }
MultiplyStep ==
    /\ pc = "odd"
    /\ LET r2 == Multiply(result, base, exponent, modulus, T, overflow_checks)
       IN IF r2.ok
          THEN result' = r2.val /\ pc' = "shift" /\ panic' = panic
          ELSE result' = result /\ pc' = "panic" /\ panic' = r2.err
    /\ UNCHANGED <<T, overflow_checks, base_arg, exponent_arg, modulus,
                   base, exponent, iters>>

\* line 60: exponent = exponent >> ONE;
ShiftStep ==
    /\ pc = "shift"
    /\ exponent' = Shr(exponent)
    /\ pc' = "square"
    /\ UNCHANGED <<T, overflow_checks, base_arg, exponent_arg, modulus,
                   result, base, panic, iters>>

\* line 61: base = (base * base) % modulus;
SquareStep ==
    /\ pc = "square"
    /\ LET b2 == Square(base, modulus, T, overflow_checks)
       IN IF b2.ok
          THEN base' = b2.val /\ pc' = "test" /\ panic' = panic
          ELSE base' = base /\ pc' = "panic" /\ panic' = b2.err
    /\ UNCHANGED <<T, overflow_checks, base_arg, exponent_arg, modulus,
                   result, exponent, iters>>

Next == Guard \/ Locals \/ Test \/ MultiplyStep \/ ShiftStep \/ SquareStep

Spec == Init /\ [][Next]_vars

\* a call, once started, runs: the function has no suspension point
FairSpec == Spec /\ WF_vars(Next)

---------------------------------------------------------------------------
(* Reference definitions used to state the properties.                     *)

Terminated == pc \in {"done", "panic"}

InLoop == pc \in {"test", "odd", "shift", "square"}

\* b^e by repeated multiplication in t; a panic when a product overflows t
RECURSIVE NaivePow(_, _, _)
NaivePow(b, e, t) ==
    IF e = 0 THEN Ok(1)
    ELSE LET p == NaivePow(b, e - 1, t)
         IN IF p.ok THEN Mul(p.val, b, t, TRUE) ELSE p

\* (b^e) rem m by e multiplications, each one reduced
RECURSIVE LinPowMod(_, _, _)
LinPowMod(b, e, m) ==
    IF e = 0 THEN TruncRem(1, m)
    ELSE TruncRem(LinPowMod(b, e - 1, m) * b, m)

RefBlock == 32

\* the same, in blocks: b^e = (b^(e \div RefBlock))^RefBlock * b^(e % RefBlock)
RECURSIVE NaivePowMod(_, _, _)
NaivePowMod(b, e, m) ==
    IF e <= RefBlock THEN LinPowMod(b, e, m)
    ELSE LET q == NaivePowMod(b, e \div RefBlock, m)
         IN TruncRem(LinPowMod(q, RefBlock, m) * LinPowMod(b, e % RefBlock, m), m)

\* the number of bits of e: 0 for e <= 0
BitLength(e, t) ==
    IF e <= 0 THEN 0
    ELSE CHOOSE n \in 1..t.bits : 2^(n - 1) <= e /\ e < 2^n

\* the step-by-step call and the operator mod_exp are the same function
MachineIsModExp ==
    LET r == mod_exp(base_arg, exponent_arg, modulus, T, overflow_checks)
    IN /\ pc = "done" => r = Ok(result)
       /\ pc = "panic" => r = Panic(panic)

---------------------------------------------------------------------------
(* The claims.                                                             *)

\* C1: for every base, every exponent e >= 0 and every modulus m > 0 on
\* which the guard passes, the call returns (b^e) mod m as computed by
\* naive repeated multiplication, on the cases small enough for the naive
\* power not to overflow T.
C1_NaiveAgreement ==
    (/\ pc = "done"
     /\ exponent_arg >= 0
     /\ exponent_arg <= MaxExp
     /\ modulus > 0
     /\ NaivePow(base_arg, exponent_arg, T).ok)
    => result = TruncRem(NaivePow(base_arg, exponent_arg, T).val, modulus)

\* C2: with modulus 1 the call returns 0, whatever the base and the
\* exponent (zero and negative exponents included).
C2_ModulusOneGivesZero ==
    (pc = "done" /\ modulus = 1) => result = 0

\* C3: for every modulus > 1 whose (modulus-1)^2 exceeds T's maximum the
\* guard aborts the call with the assertion failure before any of the
\* loop's locals is computed, whatever the base and the exponent; and for
\* every modulus > 1 the guard's subtraction and division neither overflow
\* nor divide by zero.
C3_GuardRejects ==
    /\ (/\ pc # "guard"
        /\ modulus > 1
        /\ (modulus - 1) * (modulus - 1) > MaxValue(T))
       => (/\ pc = "panic"
           /\ panic = "assert"
           /\ iters = 0
           /\ result = 0 /\ base = 0 /\ exponent = 0)
    /\ modulus > 1
       => (/\ panic \in {"none", "assert"}
           /\ Sub(modulus, ONE, T, TRUE).ok
           /\ Sub(modulus, ONE, T, TRUE).val # 0
           /\ Div(MaxValue(T), Sub(modulus, ONE, T, TRUE).val, T).ok)

C3_Witness ==
    /\ T = U8 /\ base_arg = 1 /\ exponent_arg = 1 /\ modulus = 254
    /\ pc = "panic" /\ panic = "assert"

\* C4: the guard's assertion is the only way a call aborts: a call whose
\* modulus is <= 1, or > 1 and accepted by the guard, returns a value.
C4_OnlyGuardAborts ==
    pc = "panic" => (panic = "assert" /\ modulus > 1)

\* C5: for a modulus > 1 that passes the guard, a call with an exponent
\* <= 0 performs no loop iteration and returns 1 (= 1 mod m), the value
\* the call with exponent 0 returns.
C5_NonPositiveExponent ==
    (modulus > 1 /\ exponent_arg <= 0)
    => /\ iters = 0
       /\ ~(pc \in {"odd", "shift", "square"})
       /\ pc = "panic" => panic = "assert"
       /\ pc = "done"
          => /\ result = 1
             /\ result = TruncRem(1, modulus)
             /\ Ok(result) = mod_exp(base_arg, 0, modulus, T, overflow_checks)

C5_Witness ==
    /\ pc = "done" /\ modulus > 1 /\ exponent_arg < 0 /\ base_arg > 1
    /\ result = 1

\* C6: on every call that completes, the call with the base reduced
\* first, mod_exp(b mod m, e, m), returns the same value.
C6_ReducedBase ==
    pc = "done"
    => LET b1 == Rem(base_arg, modulus, T)
       IN /\ b1.ok
          /\ mod_exp(b1.val, exponent_arg, modulus, T, overflow_checks)
             = Ok(result)

C6_Witness ==
    /\ pc = "done" /\ exponent_arg > 1 /\ modulus > 2
    /\ TruncRem(base_arg, modulus) # base_arg
    /\ result > 1

\* C7: once a modulus > 1 has passed the guard no arithmetic overflows T:
\* at every point of the loop both products result * base and base * base
\* have magnitude at most (modulus-1)^2, which is at most T's maximum.
C7_NoOverflow ==
    modulus > 1
    => /\ panic # "overflow"
       /\ (InLoop \/ pc = "done")
          => LET lim == (modulus - 1) * (modulus - 1)
             IN /\ lim <= MaxValue(T)
                /\ Abs(result * base) <= lim
                /\ Abs(base * base) <= lim
                /\ Mul(result, base, T, TRUE).ok
                /\ Mul(base, base, T, TRUE).ok

C7_Witness ==
    /\ pc = "square" /\ modulus > 2 /\ iters >= 2
    /\ Abs(base) = modulus - 1
    /\ base * base = (modulus - 1) * (modulus - 1)

\* C8: for modulus > 1 the guard rejects only when T cannot represent
\* (modulus-1)^2: every modulus > 1 with (modulus-1)^2 <= T's maximum
\* passes the guard.
C8_GuardExact ==
    (modulus > 1 /\ (modulus - 1) * (modulus - 1) <= MaxValue(T))
    => ~(pc = "panic" /\ panic = "assert")

\* C9: the call always terminates; the shift strictly decreases a positive
\* exponent; and a call that returns has run as many iterations as the
\* exponent has bits (none for an exponent <= 0), whatever the base and
\* the modulus.
C9_Termination ==
    /\ <>Terminated
    /\ [][pc = "shift"
          => (exponent > 0 /\ exponent' < exponent /\ exponent' >= 0)]_vars
    /\ [](iters <= BitLength(exponent_arg, T))
    /\ [](pc = "done" => iters = BitLength(exponent_arg, T))

C9_Witness ==
    /\ pc = "done" /\ exponent_arg = MaxValue(T) /\ T = I16
    /\ iters = 15 /\ exponent = 0

\* C10: loop invariant: for base >= 0, exponent >= 0 and a modulus > 1
\* that passed the guard, at the top of every iteration
\* (result * base^exponent) mod m = (b^e) mod m for the current locals;
\* hence the value returned is (b^e) mod m.
C10_LoopInvariant ==
    (base_arg >= 0 /\ exponent_arg >= 0 /\ modulus > 1)
    => /\ pc = "test"
          => TruncRem(result * NaivePowMod(base, exponent, modulus), modulus)
             = NaivePowMod(base_arg, exponent_arg, modulus)
       /\ pc = "done"
          => result = NaivePowMod(base_arg, exponent_arg, modulus)

C10_Witness ==
    /\ pc = "test" /\ modulus > 2 /\ base_arg > 1
    /\ iters >= 2 /\ exponent > 0 /\ result > 1 /\ base > 1

====
